---- MODULE Spec2Model ----
(***************************************************************************)
(* Model of the swipe/match engine of the server                           *)
(* (src/server/src/services/swipe.service.ts, SwipeService.recordSwipe)    *)
(* and of the POST /swipes error mapping                                   *)
(* (src/server/src/routes/swipe.routes.ts).                                *)
(*                                                                         *)
(* recordSwipe is an async function with no transaction around it: every   *)
(* `await prisma...` is one atomic statement of the store, and calls of    *)
(* other requests may run between two awaits.  One action of the model is  *)
(* one store statement together with the synchronous code that follows it  *)
(* up to the dispatch of the next statement (whose arguments, such as      *)
(* getTodayUtc(), are evaluated at dispatch).                              *)
(*                                                                         *)
(* The store enforces the two compound unique indexes the code addresses   *)
(* by name in findUnique: actorId_targetId on swipes and user1Id_user2Id   *)
(* on matches.  An insert that violates one of them throws.                *)
(*                                                                         *)
(* User ids are strings compared with `<` in the code; the model uses      *)
(* naturals, which carry the same total order.  UTC calendar days are      *)
(* numbered 0, 1, ...; Spec interleaves the calls within one UTC day,      *)
(* SeqSpec runs them one after the other while the clock advances.         *)
(***************************************************************************)
EXTENDS Integers, FiniteSets, Sequences

\* ---------------------------------------------------------------- bounds
MaxCalls == 2
MaxDay == 1
MaxActor == 2
MaxTarget == 3
MaxProfiles == 3
MaxOffset == 2
MaxPosts == 2
MaxNow == 1

\* ------------------------------------------------------ program constants
DAILY_SWIPE_LIMIT == 100
MessageLengthLimit == 1000

\* ------------------------------------------------------------------ users
\* id 0 resolves to no user; ids 1..NumUsers are rows of the users table.
GhostId == 0
NumUsers == MaxTarget + DAILY_SWIPE_LIMIT - 1
Users == 1..NumUsers
Calls == 1..MaxCalls
\* actorId is the id of the authenticated user, targetId comes from the
\* request body.  The unknown id is tried as an actor only against itself:
\* the self check precedes every lookup.
Actors == 1..MaxActor
Targets == 0..MaxTarget
Inputs == (Actors \X Targets) \cup {<<GhostId, GhostId>>}
Directions == {"like", "pass"}

\* ----------------------------------------------------------- error texts
ErrSelf == "Cannot swipe on yourself"
ErrTargetNotFound == "Target user not found"
ErrDailyLimit == "Daily swipe limit of 100 reached. Limit resets at midnight UTC."
ErrAlreadySwiped == "You have already swiped on this user"
ErrUniqueConstraint == "Unique constraint failed on the fields"
NoError == ""
MsgMutual == "Mutual like! Match created"

\* today   : the UTC calendar day of the clock
\* seeded  : how many rows the swipes table held before the first request
\* created : the rows recordSwipe has added to the swipes table
\* matches : the matches table
\* calls   : the recordSwipe requests, each with its position and locals
\* profiles        : the profiles table, in the order a scan returns its rows
\* messages        : SwipeService.matchMessageStore, in the order of the pushes
\* lastInteraction : the lastInteraction column of the matches that have one
\* now             : the clock read by `new Date()` in addMatchMessage
\* posts           : the addMatchMessage requests, each with its position
\* reply           : the response of the query answered last
VARIABLES today, seeded, created, matches, calls,
          profiles, messages, lastInteraction, now, posts, reply

\* what recordSwipe neither reads nor writes
others == <<profiles, messages, lastInteraction, now, posts, reply>>

vars == <<today, seeded, created, matches, calls, others>>

\* Seed rows: user 1 has passed, on day 0, on k users that take no further
\* part.
Prefill(k) ==
  {[id |-> <<1, MaxTarget + i, 1>>, actorId |-> 1, targetId |-> MaxTarget + i,
    direction |-> "pass", swipeDate |-> 0] : i \in 1..k}

\* the swipes table
swipes == Prefill(seeded) \cup created

IdleCall ==
  [pc |-> "idle", actorId |-> 0, targetId |-> 0, direction |-> "pass",
   countDay |-> 0, swipeDate |-> 0, swipeId |-> <<>>,
   matchCreated |-> FALSE, message |-> "", error |-> NoError]

\* A request whose response has been delivered.
ReturnedCall == [IdleCall EXCEPT !.pc = "returned"]

\* Call p takes a step to the record c.  The result of a call that has
\* returned or thrown stays in its record until the next step of any call.
Update(p, c) ==
  [q \in Calls |->
     IF q = p THEN c
     ELSE IF calls[q].pc = "done" THEN ReturnedCall
     ELSE calls[q]]

\* message = `Swiped ${direction}`
SwipedMessage(direction) ==
  IF direction = "like" THEN "Swiped like" ELSE "Swiped pass"

\* prisma.swipe.count({actorId, swipeDate: {gte: todayUtc, lt: tomorrowUtc}})
SwipeCountOn_allDays(userId, day) ==
  Cardinality({s \in swipes : s.actorId = userId})

SwipeCountOn(userId, day) ==
  Cardinality({s \in swipes : s.actorId = userId /\ s.swipeDate >= day
                                /\ s.swipeDate < day + 1})

\* getSwipeCountToday evaluated against the clock of the current state
getSwipeCountToday(userId) == SwipeCountOn(userId, today)

\* prisma.swipe.findUnique({actorId_targetId})
FindSwipe(actorId, targetId) ==
  {s \in swipes : s.actorId = actorId /\ s.targetId = targetId}

\* the normalised pair key: lower id first
PairUser1(a, b) == IF a < b THEN a ELSE b
PairUser2(a, b) == IF a < b THEN b ELSE a

\* prisma.match.findUnique({user1Id_user2Id})
FindMatch(a, b) ==
  {m \in matches : m.user1Id = PairUser1(a, b) /\ m.user2Id = PairUser2(a, b)}

\* every Match row that joins the two users, whatever the column order
MatchesOfPair(a, b) ==
  {m \in matches : {m.user1Id, m.user2Id} = {a, b}}

\* the compound unique index (actorId, targetId) of the swipes table
SwipeUniqueViolated(actorId, targetId) == FindSwipe(actorId, targetId) # {}

\* the compound unique index (user1Id, user2Id) of the matches table
MatchUniqueViolated_off(user1Id, user2Id) == FALSE

MatchUniqueViolated(user1Id, user2Id) ==
  \E m \in matches : m.user1Id = user1Id /\ m.user2Id = user2Id

\* The call throws: its promise is rejected with the error and its locals
\* go out of scope.
Finish(c, err) ==
  [c EXCEPT !.pc = "done", !.error = err, !.countDay = 0, !.swipeDate = 0]

\* `null` in a nullable column and `undefined` for an absent query parameter
Null == -1000000

\* no query has been answered yet, or the response has been sent
NoReply == [op |-> "none"]

PostCalls == 1..MaxPosts

IdlePost ==
  [pc |-> "idle", matchId |-> <<>>, senderId |-> 0, content |-> <<>>,
   trimmedContent |-> <<>>, messageId |-> 0, createdAt |-> 0,
   error |-> NoError]

\* ----------------------------------------------------------------- Init
\* The swipes table starts empty, or one short of user 1's daily limit.
\* No profile has been filled in and no message has been posted.
Init ==
  /\ today = 0
  /\ seeded \in {0, DAILY_SWIPE_LIMIT - 1}
  /\ created = {}
  /\ matches = {}
  /\ calls = [p \in Calls |-> IdleCall]
  /\ profiles = <<>>
  /\ messages = <<>>
  /\ lastInteraction = {}
  /\ now = 0
  /\ posts = [k \in PostCalls |-> IdlePost]
  /\ reply = NoReply

\* -------------------------------------------------------------- actions
\* Row ids are opaque and fresh; a new row is named by its key columns and
\* the number of rows that already carry them.
NewSwipeId(actorId, targetId) ==
  <<actorId, targetId, Cardinality(FindSwipe(actorId, targetId)) + 1>>

NewMatchId(user1Id, user2Id) ==
  <<user1Id, user2Id,
    Cardinality({m \in matches : m.user1Id = user1Id /\ m.user2Id = user2Id}) + 1>>

\* if (actorId === targetId) throw
SelfSwipe_never(actorId, targetId) == FALSE

SelfSwipe(actorId, targetId) == actorId = targetId

\* Entry of recordSwipe: the self check, prisma.user.findUnique with the
\* not-found check, and the dispatch of the count with the day range read
\* from the clock.  No request writes the users table, so the lookup is
\* taken in the same step as the entry.  Requests are numbered in the order
\* in which they arrive.
StartCall(p, a, t, d) ==
  /\ calls[p].pc = "idle"
  /\ \A q \in Calls : q < p => calls[q].pc # "idle"
  /\ LET c == [IdleCall EXCEPT !.actorId = a, !.targetId = t, !.direction = d]
         arrived == IF SelfSwipe(a, t) THEN Finish(c, ErrSelf)
                    ELSE IF t \notin Users THEN Finish(c, ErrTargetNotFound)
                    ELSE [c EXCEPT !.pc = "countToday", !.countDay = today]
     IN calls' = Update(p, arrived)
  /\ UNCHANGED <<today, seeded, created, matches>>
  /\ UNCHANGED others

\* if (swipesCount >= DAILY_SWIPE_LIMIT) throw
LimitReached_gt(swipesCount) == swipesCount > DAILY_SWIPE_LIMIT

LimitReached_never(swipesCount) == FALSE

LimitReached(swipesCount) == swipesCount >= DAILY_SWIPE_LIMIT

\* prisma.swipe.count, the limit check, and the dispatch of the duplicate
\* lookup.
CountToday(p) ==
  /\ calls[p].pc = "countToday"
  /\ LET c == calls[p]
         swipesCount == SwipeCountOn(c.actorId, c.countDay)
     IN calls' = Update(p,
                    IF LimitReached(swipesCount) THEN Finish(c, ErrDailyLimit)
                    ELSE [c EXCEPT !.pc = "findExisting", !.countDay = 0])
  /\ UNCHANGED <<today, seeded, created, matches>>
  /\ UNCHANGED others

\* existingSwipe: the row of the ordered pair (actorId, targetId)
ExistingSwipe_reverse(actorId, targetId) == FindSwipe(targetId, actorId)

ExistingSwipe(actorId, targetId) == FindSwipe(actorId, targetId)

\* prisma.swipe.findUnique for (actorId, targetId), the duplicate check,
\* and the dispatch of the insert with swipeDate = getTodayUtc().
FindExisting(p) ==
  /\ calls[p].pc = "findExisting"
  /\ LET c == calls[p]
     IN calls' = Update(p,
                    IF ExistingSwipe(c.actorId, c.targetId) # {}
                    THEN Finish(c, ErrAlreadySwiped)
                    ELSE [c EXCEPT !.pc = "createSwipe", !.swipeDate = today])
  /\ UNCHANGED <<today, seeded, created, matches>>
  /\ UNCHANGED others

\* prisma.swipe.create; a pass returns, a like dispatches the reverse lookup.
CreateSwipe(p) ==
  /\ calls[p].pc = "createSwipe"
  /\ LET c == calls[p]
         newId == NewSwipeId(c.actorId, c.targetId)
     IN IF SwipeUniqueViolated(c.actorId, c.targetId)
        THEN /\ calls' = Update(p, Finish(c, ErrUniqueConstraint))
             /\ UNCHANGED created
        ELSE /\ created' = created \cup
                  {[id |-> newId, actorId |-> c.actorId, targetId |-> c.targetId,
                    direction |-> c.direction, swipeDate |-> c.swipeDate]}
             /\ calls' = Update(p,
                  [c EXCEPT !.swipeId = newId, !.swipeDate = 0,
                            !.message = SwipedMessage(c.direction),
                            !.pc = IF c.direction = "like" THEN "findReverse"
                                   ELSE "done"])
  /\ UNCHANGED <<today, seeded, matches>>
  /\ UNCHANGED others

\* reverseSwipe: the row of the ordered pair (targetId, actorId)
ReverseSwipe_own(actorId, targetId) == FindSwipe(actorId, targetId)

ReverseSwipe(actorId, targetId) == FindSwipe(targetId, actorId)

\* if (reverseSwipe && reverseSwipe.direction === 'like')
IsMutualLike_any(reverseSwipe) == reverseSwipe # {}

IsMutualLike_pass(reverseSwipe) ==
  \E s \in reverseSwipe : s.direction = "pass"

IsMutualLike_never(reverseSwipe) == FALSE

IsMutualLike(reverseSwipe) ==
  \E s \in reverseSwipe : s.direction = "like"

\* prisma.swipe.findUnique for (targetId, actorId); on a reciprocal like
\* the match lookup is dispatched.
FindReverse(p) ==
  /\ calls[p].pc = "findReverse"
  /\ LET c == calls[p]
         reverseSwipe == ReverseSwipe(c.actorId, c.targetId)
     IN calls' = Update(p,
                    IF IsMutualLike(reverseSwipe)
                    THEN [c EXCEPT !.pc = "findMatch"]
                    ELSE [c EXCEPT !.pc = "done"])
  /\ UNCHANGED <<today, seeded, created, matches>>
  /\ UNCHANGED others

\* prisma.match.findUnique on the normalised pair; when no row comes back
\* the match insert is dispatched.
FindExistingMatch(p) ==
  /\ calls[p].pc = "findMatch"
  /\ LET c == calls[p]
     IN calls' = Update(p,
                    IF FindMatch(c.actorId, c.targetId) = {}
                    THEN [c EXCEPT !.pc = "createMatch"]
                    ELSE [c EXCEPT !.pc = "done"])
  /\ UNCHANGED <<today, seeded, created, matches>>
  /\ UNCHANGED others

\* [user1Id, user2Id] = actorId < targetId ? [actorId, targetId]
\*                                          : [targetId, actorId]
MatchOrder_asGiven(actorId, targetId) == <<actorId, targetId>>

MatchOrder(actorId, targetId) ==
  IF actorId < targetId THEN <<actorId, targetId>> ELSE <<targetId, actorId>>

\* prisma.match.create with [user1Id, user2Id] ordered lower id first.
CreateMatch(p) ==
  /\ calls[p].pc = "createMatch"
  /\ LET c == calls[p]
         user1Id == MatchOrder(c.actorId, c.targetId)[1]
         user2Id == MatchOrder(c.actorId, c.targetId)[2]
     IN IF MatchUniqueViolated(user1Id, user2Id)
        THEN /\ calls' = Update(p, Finish(c, ErrUniqueConstraint))
             /\ UNCHANGED matches
        ELSE /\ matches' = matches \cup
                  {[id |-> NewMatchId(user1Id, user2Id),
                    user1Id |-> user1Id, user2Id |-> user2Id]}
             /\ calls' = Update(p,
                  [c EXCEPT !.matchCreated = TRUE, !.message = MsgMutual,
                            !.pc = "done"])
  /\ UNCHANGED <<today, seeded, created>>
  /\ UNCHANGED others

\* The clock passes a UTC midnight.
AdvanceDay ==
  /\ today < MaxDay
  /\ today' = today + 1
  /\ UNCHANGED <<seeded, created, matches, calls>>
  /\ UNCHANGED others

Step(p) ==
  \/ \E i \in Inputs, d \in Directions : StartCall(p, i[1], i[2], d)
  \/ CountToday(p)
  \/ FindExisting(p)
  \/ CreateSwipe(p)
  \/ FindReverse(p)
  \/ FindExistingMatch(p)
  \/ CreateMatch(p)

Next == \E p \in Calls : Step(p)

\* concurrent requests within one UTC day: any interleaving of the calls'
\* store statements
Spec == Init /\ [][Next]_vars

\* non-overlapping requests, with the clock running: a call arrives only
\* when every earlier call has returned
Alone(p) == \A q \in Calls \ {p} : calls[q].pc \in {"idle", "done", "returned"}

SeqStartCall(p, a, t, d) == Alone(p) /\ StartCall(p, a, t, d)

SeqStep(p) ==
  \/ \E i \in Inputs, d \in Directions : SeqStartCall(p, i[1], i[2], d)
  \/ CountToday(p)
  \/ FindExisting(p)
  \/ CreateSwipe(p)
  \/ FindReverse(p)
  \/ FindExistingMatch(p)
  \/ CreateMatch(p)

SeqNext == (\E p \in Calls : SeqStep(p)) \/ AdvanceDay

SeqSpec == Init /\ [][SeqNext]_vars

\* ------------------------------------------------- POST /swipes mapping
IncludesDailyLimit == {ErrDailyLimit}
IncludesAlreadySwiped == {ErrAlreadySwiped}
IncludesNotFoundOrYourself == {ErrTargetNotFound, ErrSelf}

HttpStatus(c) ==
  IF c.error = NoError THEN 201
  ELSE IF c.error \in IncludesDailyLimit THEN 429
  ELSE IF c.error \in IncludesAlreadySwiped THEN 409
  ELSE IF c.error \in IncludesNotFoundOrYourself THEN 400
  ELSE 500

TypeOK ==
  /\ today \in 0..MaxDay
  /\ \A s \in swipes : s.actorId \in Users /\ s.targetId \in Users
                        /\ s.direction \in Directions /\ s.swipeDate \in 0..MaxDay
  /\ \A m \in matches : m.user1Id \in Users /\ m.user2Id \in Users
  /\ \A p \in Calls : calls[p].pc \in {"idle", "returned", "countToday",
        "findExisting", "createSwipe", "findReverse", "findMatch",
        "createMatch", "done"}

\* ------------------------------------------------------------- discovery
\* DiscoveryService.getNearbyProfiles.  Coordinates are held in thousandths
\* of a degree and distances in thousandths of a mile; the rounded distance
\* of a response is in tenths of a mile.
ErrLocationRequired == "User location is required for discovery"

\* Earth's radius in miles
R == 3959

\* Math.PI / 180, in units of 10^-7
PiOver180 == 174533

\* `!x` for a value of type number | null
Falsy(x) == x = Null \/ x = 0

\* `a || b` for values of type number | null | undefined
OrElse(a, b) == IF Falsy(a) THEN b ELSE a

Abs(x) == IF x < 0 THEN 0 - x ELSE x

Min(a, b) == IF a < b THEN a ELSE b

\* degrees * (Math.PI / 180): thousandths of a degree to millionths of a
\* radian.  The product is taken in two parts to stay within 32 bits.
toRadians(degrees) ==
  (degrees \div 10000) * PiOver180 + ((degrees % 10000) * PiOver180) \div 10000

\* Every located profile of the model lies on one meridian, where dLng = 0,
\* a = sin^2(dLat / 2) and c = |dLat| in radians; the result is R * c, in
\* thousandths of a mile.
haversineDistance(lat1, lng1, lat2, lng2) ==
  LET c == toRadians(Abs(lat2 - lat1))
  IN R * (c \div 1000) + (R * (c % 1000)) \div 1000

\* Math.round(distance * 10) / 10, in tenths of a mile
RoundTenths(distance) == (distance + 50) \div 100

\* the profiles of the tests: user 1 in New York, the others to the north
LatHome == 40713
LngHome == -74006

Profile(userId, status, lat, lng, radiusPref, age, gender, hobbies) ==
  [userId |-> userId, status |-> status, locationLat |-> lat,
   locationLng |-> lng, radiusPref |-> radiusPref, age |-> age,
   gender |-> gender, hobbies |-> hobbies]

\* a user without a row in the profiles table
NoRow(u) == Profile(u, "absent", Null, Null, Null, Null, "", {})

\* The rows user 1 may have: located, with or without a radius preference;
\* or on the equator, on the prime meridian, with a coordinate that is not
\* set, or no row at all.
LocatedRows ==
  {Profile(1, "active", LatHome, LngHome, Null, 25, "male", {1, 2}),
   Profile(1, "active", LatHome, LngHome, 50, 25, "male", {1, 2})}

UnlocatedRows ==
  {Profile(1, "active", 0, LngHome, Null, 25, "male", {1, 2}),
   Profile(1, "active", LatHome, 0, Null, 25, "male", {1, 2}),
   Profile(1, "active", Null, LngHome, Null, 25, "male", {1, 2}),
   Profile(1, "active", LatHome, Null, Null, 25, "male", {1, 2}),
   NoRow(1)}

RequesterRows == LocatedRows \cup UnlocatedRows

\* User 1 may also live 4.97 miles north of the equator, with the others on
\* the equator or 4.97 miles farther north.
EquatorRows == {Profile(1, "active", 72, LngHome, Null, 25, "male", {1, 2})}

EquatorCandidates(u) ==
  {Profile(u, "active", 0, LngHome, Null, 28, "female", {1}),
   Profile(u, "active", 144, LngHome, Null, 30, "female", {2})}

\* The rows another user may have: 4.97, 5.04, 12.02 or 30.06 miles north of
\* user 1, or hidden.
CandidateRows(u) ==
  {Profile(u, "active", LatHome + 72, LngHome, Null, 28, "female", {1}),
   Profile(u, "active", LatHome + 73, LngHome, Null, 30, "female", {1, 2}),
   Profile(u, "active", LatHome + 174, LngHome, Null, Null, "male", {}),
   Profile(u, "active", LatHome + 435, LngHome, Null, 28, "female", {2}),
   Profile(u, "hidden", LatHome + 72, LngHome, Null, 30, "female", {1, 2})}

DiscUsers == 1..MaxProfiles

\* the user the other profiles are placed around when user 1 has no location
Neighbour(u) == Profile(u, "active", LatHome + 72, LngHome, Null, 28, "female", {1})

Tables ==
  {f \in [DiscUsers -> RequesterRows \cup EquatorRows
                         \cup UNION {CandidateRows(u) \cup EquatorCandidates(u) :
                                       u \in DiscUsers}] :
     /\ f[1] \in RequesterRows \cup EquatorRows
     /\ \A u \in DiscUsers \ {1} :
          f[u] \in (IF f[1] \in LocatedRows THEN CandidateRows(u)
                    ELSE IF f[1] \in EquatorRows THEN EquatorCandidates(u)
                    ELSE {Neighbour(u)})}

IsRow(row) == row.status # "absent"

\* the rows in the order of their insertion, or in the reverse order
Ascending(f) == SelectSeq([i \in 1..MaxProfiles |-> f[i]], IsRow)
Descending(f) == SelectSeq([i \in 1..MaxProfiles |-> f[MaxProfiles + 1 - i]], IsRow)

\* a row recordSwipe has stored on day 0
SwipeRow(actorId, targetId, direction) ==
  [id |-> <<actorId, targetId, 1>>, actorId |-> actorId, targetId |-> targetId,
   direction |-> direction, swipeDate |-> 0]

Query(limit, offset, radius, genderPreference, minAge, maxAge, sameCity) ==
  [limit |-> limit, offset |-> offset, radius |-> radius,
   genderPreference |-> genderPreference, minAge |-> minAge,
   maxAge |-> maxAge, sameCity |-> sameCity]

\* queries within the bounds of DiscoveryQuerySchema
FilterQueries ==
  {Query(Null, Null, r, g, a, b, c) :
     r \in {Null, 10}, g \in {"", "female"}, a \in {Null, 30}, b \in {Null, 28},
     c \in BOOLEAN}

PageQueries ==
  {Query(l, o, Null, "", Null, Null, FALSE) : l \in {1, 2, 50}, o \in 0..MaxOffset}

Queries == FilterQueries \cup PageQueries

ProfileRows == {profiles[i] : i \in DOMAIN profiles}

\* prisma.profile.findUnique({ where: { userId } })
FindProfile(userId) == {row \in ProfileRows : row.userId = userId}

\* if (!userProfile || !userProfile.locationLat || !userProfile.locationLng)
LocationMissing(userProfile) ==
  \/ userProfile = {}
  \/ \E me \in userProfile : Falsy(me.locationLat) \/ Falsy(me.locationLng)

\* query.radius || userProfile.radiusPref || 25
Radius(query, me) == OrElse(query.radius, OrElse(me.radiusPref, 25))

\* query.offset || 0
Offset(query) == OrElse(query.offset, 0)

\* Math.min(query.limit || 20, 50)
Limit(query) == Min(OrElse(query.limit, 20), 50)

\* prisma.swipe.findMany({ where: { actorId: userId } }), as a set of targets
SwipedUserIds(userId) == {s.targetId : s \in {t \in swipes : t.actorId = userId}}

\* The `where` of prisma.profile.findMany.  The object literal names the key
\* userId twice, so the later value, { notIn: swipedUserIds }, replaces the
\* earlier one, { not: userId }.
CandidateWhere(row, userId) ==
  /\ row.status = "active"
  /\ row.locationLat # Null
  /\ row.locationLng # Null
  /\ row.userId \notin SwipedUserIds(userId)

\* if (distance > radius) return false
WithinRadius_always(distance, radius) == TRUE

WithinRadius(distance, radius) == ~(distance > radius * 1000)

\* if (query.genderPreference && profile.gender !== query.genderPreference)
GenderAccepted(row, query) ==
  ~(query.genderPreference # "" /\ row.gender # query.genderPreference)

\* if (query.minAge && (!profile.age || profile.age < query.minAge))
MinAgeAccepted(row, query) ==
  ~(~Falsy(query.minAge) /\ (Falsy(row.age) \/ row.age < query.minAge))

\* if (query.maxAge && (!profile.age || profile.age > query.maxAge))
MaxAgeAccepted(row, query) ==
  ~(~Falsy(query.maxAge) /\ (Falsy(row.age) \/ row.age > query.maxAge))

\* if (query.sameCity && ...) { if (cityDistance > 10) return false }
SameCityAccepted(row, query, me) ==
  ~(/\ query.sameCity
    /\ ~Falsy(me.locationLat)
    /\ ~Falsy(me.locationLng)
    /\ haversineDistance(me.locationLat, me.locationLng,
                         row.locationLat, row.locationLng) > 10 * 1000)

\* the callback of candidates.filter
CandidateFilter(row, query, me) ==
  /\ ~(Falsy(row.locationLat) \/ Falsy(row.locationLng))
  /\ WithinRadius(haversineDistance(me.locationLat, me.locationLng,
                                    row.locationLat, row.locationLng),
                  Radius(query, me))
  /\ GenderAccepted(row, query)
  /\ MinAgeAccepted(row, query)
  /\ MaxAgeAccepted(row, query)
  /\ SameCityAccepted(row, query, me)

\* the callback of filteredCandidates.map
Transform(row, me) ==
  [userId |-> row.userId, age |-> row.age, gender |-> row.gender,
   status |-> row.status, locationLat |-> row.locationLat,
   locationLng |-> row.locationLng,
   distance |-> RoundTenths(haversineDistance(me.locationLat, me.locationLng,
                                              row.locationLat, row.locationLng)),
   sharedHobbies |-> row.hobbies \cap me.hobbies]

\* the comparator of .sort: the distance of the response first, then the
\* number of shared hobbies, descending
Compare(a, b) ==
  IF a.distance - b.distance # 0 THEN a.distance - b.distance
  ELSE Cardinality(b.sharedHobbies) - Cardinality(a.sharedHobbies)

\* Array.prototype.sort is stable: x, which followed every element of s in
\* the input, goes before the first element it is strictly smaller than.
RECURSIVE InsertSorted(_, _)
InsertSorted(x, s) ==
  IF s = <<>> THEN <<x>>
  ELSE IF Compare(x, Head(s)) < 0 THEN <<x>> \o s
  ELSE <<Head(s)>> \o InsertSorted(x, Tail(s))

RECURSIVE SortProfiles(_)
SortProfiles(s) ==
  IF s = <<>> THEN <<>>
  ELSE InsertSorted(s[Len(s)], SortProfiles(SubSeq(s, 1, Len(s) - 1)))

\* transformedProfiles: the filtered, transformed and sorted candidates
TransformedProfiles(userId, query) ==
  LET me == CHOOSE row \in FindProfile(userId) : TRUE
      Where(row) == CandidateWhere(row, userId)
      Keep(row) == CandidateFilter(row, query, me)
      filteredCandidates == SelectSeq(SelectSeq(profiles, Where), Keep)
  IN SortProfiles([i \in 1..Len(filteredCandidates) |->
                     Transform(filteredCandidates[i], me)])

\* transformedProfiles.slice(offset, offset + limit)
Slice(s, offset, limit) == SubSeq(s, offset + 1, Min(offset + limit, Len(s)))

\* hasMore = offset + limit < transformedProfiles.length
HasMore_inclusive(offset, limit, length) == offset + limit <= length

HasMore(offset, limit, length) == offset + limit < length

\* what getNearbyProfiles returns or throws for the store of this state
getNearbyProfiles(userId, query) ==
  IF LocationMissing(FindProfile(userId))
  THEN [op |-> "getNearbyProfiles", userId |-> userId, query |-> query,
        error |-> ErrLocationRequired, profiles |-> <<>>, hasMore |-> FALSE,
        total |-> 0]
  ELSE LET transformedProfiles == TransformedProfiles(userId, query)
       IN [op |-> "getNearbyProfiles", userId |-> userId, query |-> query,
           error |-> NoError,
           profiles |-> Slice(transformedProfiles, Offset(query), Limit(query)),
           hasMore |-> HasMore(Offset(query), Limit(query),
                               Len(transformedProfiles)),
           total |-> Len(transformedProfiles)]

\* A discovery request is answered.  None of its four store statements
\* writes, and no other request runs in DiscSpec, so the request is one step.
GetNearbyProfiles(userId, query) ==
  /\ reply = NoReply
  /\ reply' = getNearbyProfiles(userId, query)
  /\ UNCHANGED <<today, seeded, created, matches, calls>>
  /\ UNCHANGED <<profiles, messages, lastInteraction, now, posts>>

\* The response is sent.
Deliver ==
  /\ reply # NoReply
  /\ reply' = NoReply
  /\ UNCHANGED <<today, seeded, created, matches, calls>>
  /\ UNCHANGED <<profiles, messages, lastInteraction, now, posts>>

\* The profiles table holds up to MaxProfiles rows, and user 1 may have
\* swiped on user 2.
DiscInit ==
  /\ today = 0
  /\ seeded = 0
  /\ created \in {{}, {SwipeRow(1, 2, "like")}}
  /\ matches = {}
  /\ calls = [p \in Calls |-> IdleCall]
  /\ profiles \in {Ascending(f) : f \in Tables} \cup {Descending(f) : f \in Tables}
  /\ messages = <<>>
  /\ lastInteraction = {}
  /\ now = 0
  /\ posts = [k \in PostCalls |-> IdlePost]
  /\ reply = NoReply

\* prisma.profile.findMany is given no orderBy, so the order in which a scan
\* returns the rows of the unchanged table may differ from one request to
\* the next.
Reverse(s) == [i \in 1..Len(s) |-> s[Len(s) + 1 - i]]

Rescan ==
  /\ Len(profiles) > 1
  /\ profiles' = Reverse(profiles)
  /\ UNCHANGED <<today, seeded, created, matches, calls>>
  /\ UNCHANGED <<messages, lastInteraction, now, posts, reply>>

DiscNext ==
  \/ \E u \in DiscUsers, q \in Queries : GetNearbyProfiles(u, q)
  \/ Deliver
  \/ Rescan

\* discovery requests against a store no request writes
DiscSpec == DiscInit /\ [][DiscNext]_vars

\* ------------------------------------------- GET /api/discovery/profiles
\* The route hands req.query to DiscoveryQuerySchema.parse.  Express parses
\* the query string into strings: ?limit=10 gives { limit: '10' }.  A raw
\* value is held with its JavaScript type and with what its text denotes.
Absent == [typeof |-> "undefined", value |-> Null]
Text(value) == [typeof |-> "string", value |-> value]

\* text that denotes no number
NotANumber == Null

RawQuery(limit, offset, radius, genderPreference, minAge, maxAge, sameCity) ==
  [limit |-> limit, offset |-> offset, radius |-> radius,
   genderPreference |-> genderPreference, minAge |-> minAge,
   maxAge |-> maxAge, sameCity |-> sameCity]

\* the query strings of the route tests, and some more: none, a gender, the
\* three filters, limit=10, limit=invalid, limit=51, sameCity=true
RawQueries ==
  {RawQuery(Absent, Absent, Absent, Absent, Absent, Absent, Absent),
   RawQuery(Absent, Absent, Absent, Text("female"), Absent, Absent, Absent),
   RawQuery(Absent, Absent, Absent, Text("female"), Text(25), Text(30), Absent),
   RawQuery(Text(10), Absent, Absent, Absent, Absent, Absent, Absent),
   RawQuery(Text(NotANumber), Absent, Absent, Absent, Absent, Absent, Absent),
   RawQuery(Text(51), Absent, Absent, Absent, Absent, Absent, Absent),
   RawQuery(Absent, Absent, Absent, Absent, Absent, Absent, Text(TRUE))}

Genders == {"male", "female", "non-binary", "other"}

\* z.number().int().min(lo).max(hi), with .optional() or .default()
ZodNumber(raw, lo, hi) ==
  \/ raw.typeof = "undefined"
  \/ (raw.typeof = "number" /\ raw.value >= lo /\ raw.value <= hi)

\* z.number().int().min(0).default(0)
ZodNumberFrom(raw, lo) ==
  \/ raw.typeof = "undefined"
  \/ (raw.typeof = "number" /\ raw.value >= lo)

\* z.enum([...]).optional()
ZodEnum(raw, values) ==
  \/ raw.typeof = "undefined"
  \/ (raw.typeof = "string" /\ raw.value \in values)

\* z.boolean().default(false)
ZodBoolean(raw) == raw.typeof \in {"undefined", "boolean"}

\* DiscoveryQuerySchema.parse does not throw
SchemaAccepts(raw) ==
  /\ ZodNumber(raw.limit, 1, 50)
  /\ ZodNumberFrom(raw.offset, 0)
  /\ ZodNumber(raw.radius, 1, 500)
  /\ ZodEnum(raw.genderPreference, Genders)
  /\ ZodNumber(raw.minAge, 18, 120)
  /\ ZodNumber(raw.maxAge, 18, 120)
  /\ ZodBoolean(raw.sameCity)

\* the value of a parameter the schema has accepted
Parsed(raw, default) == IF raw.typeof = "undefined" THEN default ELSE raw.value

\* validatedQuery
ValidatedQuery(raw) ==
  Query(Parsed(raw.limit, 20), Parsed(raw.offset, 0), Parsed(raw.radius, Null),
        Parsed(raw.genderPreference, ""), Parsed(raw.minAge, Null),
        Parsed(raw.maxAge, Null), Parsed(raw.sameCity, FALSE))

\* what the route answers
RouteResponse(userId, raw) ==
  LET base == [op |-> "GET /api/discovery/profiles", userId |-> userId,
               rawQuery |-> raw, status |-> 500, profiles |-> <<>>,
               hasMore |-> FALSE, total |-> 0]
  IN IF ~SchemaAccepts(raw) THEN [base EXCEPT !.status = 400]
     ELSE LET result == getNearbyProfiles(userId, ValidatedQuery(raw))
          IN IF result.error = NoError
             THEN [base EXCEPT !.status = 200, !.profiles = result.profiles,
                               !.hasMore = result.hasMore, !.total = result.total]
             ELSE IF result.error = ErrLocationRequired
             THEN [base EXCEPT !.status = 400]
             ELSE base

\* A request of an authenticated user is answered.
GetProfiles(userId, raw) ==
  /\ reply = NoReply
  /\ reply' = RouteResponse(userId, raw)
  /\ UNCHANGED <<today, seeded, created, matches, calls>>
  /\ UNCHANGED <<profiles, messages, lastInteraction, now, posts>>

RouteNext ==
  \/ \E u \in DiscUsers, raw \in RawQueries : GetProfiles(u, raw)
  \/ Deliver

\* requests to the discovery route against a store no request writes
RouteSpec == DiscInit /\ [][RouteNext]_vars

\* ------------------------------------------- ProfileService.updateProfile
ErrInvalidHobbies == "One or more hobby IDs are invalid"

\* the ids of the rows of the hobbies table
HobbyIds == {1, 2}

\* a hobby id no row of the hobbies table carries
UnknownHobbyId == 9

\* `undefined` for data.hobbies, and a supplied array of hobby ids
NoHobbies == [given |-> FALSE, ids |-> <<>>]
HobbyList(ids) == [given |-> TRUE, ids |-> ids]

\* ProfileUpdateInput: the age and the hobbies of the request body
ProfileData(age, hobbies) == [age |-> age, hobbies |-> hobbies]

ProfileUpdates ==
  {ProfileData(31, NoHobbies),
   ProfileData(Null, HobbyList(<<>>)),
   ProfileData(Null, HobbyList(<<2>>)),
   ProfileData(Null, HobbyList(<<UnknownHobbyId>>)),
   ProfileData(31, HobbyList(<<1, UnknownHobbyId>>))}

\* update: profileData, on the row of the user
UpdateRow(row, profileData) ==
  IF profileData.age = Null THEN row ELSE [row EXCEPT !.age = profileData.age]

\* create: { userId, ...profileData, status: profileData.status || 'active',
\*           radiusPref: profileData.radiusPref || 25 }
CreateRow(userId, profileData) ==
  Profile(userId, "active", Null, Null, 25, profileData.age, "", {})

\* prisma.profile.upsert({ where: { userId }, update, create })
Upsert(table, userId, profileData) ==
  IF \E i \in DOMAIN table : table[i].userId = userId
  THEN [i \in DOMAIN table |->
          IF table[i].userId = userId THEN UpdateRow(table[i], profileData)
          ELSE table[i]]
  ELSE Append(table, CreateRow(userId, profileData))

\* prisma.profileHobby.deleteMany({ where: { profileId } }) followed by
\* createMany of the given hobby ids: the hobbies of the row are replaced
SetHobbies(table, userId, hobbies) ==
  [i \in DOMAIN table |->
     IF table[i].userId = userId THEN [table[i] EXCEPT !.hobbies = hobbies]
     ELSE table[i]]

\* prisma.hobby.findMany({ where: { id: { in: hobbies } } })
HobbyRecords(ids) == {ids[i] : i \in DOMAIN ids} \cap HobbyIds

\* if (hobbyRecords.length !== hobbies.length)
HobbiesInvalid(ids) == Cardinality(HobbyRecords(ids)) # Len(ids)

\* The profiles table and the error, if any, at the end of updateProfile:
\* each store statement is applied when it is reached and none is undone by
\* a later throw.
updateProfile(userId, data) ==
  LET upserted == Upsert(profiles, userId, data)
      removed == SetHobbies(upserted, userId, {})
  IN IF ~data.hobbies.given THEN [table |-> upserted, error |-> NoError]
     ELSE IF Len(data.hobbies.ids) = 0 THEN [table |-> removed, error |-> NoError]
     ELSE IF HobbiesInvalid(data.hobbies.ids)
          THEN [table |-> removed, error |-> ErrInvalidHobbies]
     ELSE [table |-> SetHobbies(removed, userId, HobbyRecords(data.hobbies.ids)),
           error |-> NoError]

\* PUT /api/profile of an authenticated user is served.
UpdateProfile(userId, data) ==
  /\ reply = NoReply
  /\ profiles' = updateProfile(userId, data).table
  /\ reply' = [op |-> "updateProfile", userId |-> userId, data |-> data,
               error |-> updateProfile(userId, data).error]
  /\ UNCHANGED <<today, seeded, created, matches, calls>>
  /\ UNCHANGED <<messages, lastInteraction, now, posts>>

\* the query of a request without parameters
DefaultQuery == Query(20, 0, Null, "", Null, Null, FALSE)

\* User 1 lives in New York and has two hobbies, or has no profile yet; the
\* others live 4.97 miles to the north and have the first hobby.
ProfInit ==
  /\ today = 0
  /\ seeded = 0
  /\ created = {}
  /\ matches = {}
  /\ calls = [p \in Calls |-> IdleCall]
  /\ \E row \in {Profile(1, "active", LatHome, LngHome, Null, 25, "male", {1, 2}),
                 NoRow(1)} :
       profiles = SelectSeq([u \in DiscUsers |-> IF u = 1 THEN row ELSE Neighbour(u)],
                            IsRow)
  /\ messages = <<>>
  /\ lastInteraction = {}
  /\ now = 0
  /\ posts = [k \in PostCalls |-> IdlePost]
  /\ reply = NoReply

ProfNext ==
  \/ \E u \in DiscUsers, data \in ProfileUpdates : UpdateProfile(u, data)
  \/ \E u \in DiscUsers : GetNearbyProfiles(u, DefaultQuery)
  \/ Deliver

\* profile updates and discovery requests, one after the other
ProfSpec == ProfInit /\ [][ProfNext]_vars

\* --------------------------------------------------- matches and messages
\* SwipeService.getUserMatches, getMatchDetails, getMatchMessages and
\* addMatchMessage.  A message content is a sequence of characters.
ErrMatchNotFound == "Match not found"
ErrUnauthorized == "Unauthorized to view this match"
ErrContentEmpty == "Message content cannot be empty"
ErrContentTooLong == "Message content must be 1000 characters or less"

\* the users who send the requests about matches
Senders == {1, 2, 3}

MatchRow(user1Id, user2Id) ==
  [id |-> <<user1Id, user2Id, 1>>, user1Id |-> user1Id, user2Id |-> user2Id]

\* an id that resolves to no row of the matches table
UnknownMatchId == <<0, 0, 0>>

MatchIds == {MatchRow(1, 2).id, UnknownMatchId}

\* A content is held as its runs of equal characters: <<Run(" ", 1),
\* Run("x", 3)>> is " xxx".
Run(ch, n) == [ch |-> ch, n |-> n]

\* Contents a client may send: empty, blank, one that is padded, holds a
\* blank inside and has exactly the longest accepted length once trimmed,
\* and one that is longer by a character.
Contents ==
  {<<>>,
   <<Run(" ", 2)>>,
   <<Run(" ", 1), Run("a", 1), Run(" ", 1), Run("x", MessageLengthLimit - 2),
     Run(" ", 1)>>,
   <<Run("x", MessageLengthLimit + 1)>>}

\* content.length
RECURSIVE Length(_)
Length(content) ==
  IF content = <<>> THEN 0 ELSE Head(content).n + Length(Tail(content))

\* content.trim(): the whitespace at the start and at the end is dropped,
\* the characters between are kept as they are
RECURSIVE TrimStart(_)
TrimStart(content) ==
  IF content = <<>> THEN <<>>
  ELSE IF Head(content).ch = " " THEN TrimStart(Tail(content))
  ELSE content

RECURSIVE TrimEnd(_)
TrimEnd(content) ==
  IF content = <<>> THEN <<>>
  ELSE IF content[Len(content)].ch = " "
       THEN TrimEnd(SubSeq(content, 1, Len(content) - 1))
  ELSE content

Trim(content) == TrimEnd(TrimStart(content))

\* if (!trimmedContent)
IsEmpty(trimmedContent) == trimmedContent = <<>>

\* if (trimmedContent.length > 1000)
TooLong_from1000(trimmedContent) == Length(trimmedContent) >= MessageLengthLimit

TooLong(trimmedContent) == Length(trimmedContent) > MessageLengthLimit

\* prisma.match.findUnique({ where: { id: matchId } })
FindMatchById(matchId) == {m \in matches : m.id = matchId}

\* match.user1Id !== userId && match.user2Id !== userId
NotParticipant(match, userId) == match.user1Id # userId /\ match.user2Id # userId

\* the error assertMatchParticipant and getMatchDetails throw, if any
assertMatchParticipant(matchId, userId) ==
  IF FindMatchById(matchId) = {} THEN ErrMatchNotFound
  ELSE IF \A match \in FindMatchById(matchId) : NotParticipant(match, userId)
       THEN ErrUnauthorized
  ELSE NoError

\* ensureMessageStore(matchId): the messages pushed for the match, in the
\* order of the pushes
ensureMessageStore(matchId) ==
  LET OfMatch(message) == message.matchId = matchId
  IN SelectSeq(messages, OfMatch)

\* .sort((a, b) => a.createdAt.getTime() - b.createdAt.getTime()), stable
RECURSIVE InsertByCreatedAt(_, _)
InsertByCreatedAt(x, s) ==
  IF s = <<>> THEN <<x>>
  ELSE IF x.createdAt - Head(s).createdAt < 0 THEN <<x>> \o s
  ELSE <<Head(s)>> \o InsertByCreatedAt(x, Tail(s))

RECURSIVE SortByCreatedAt(_)
SortByCreatedAt(s) ==
  IF s = <<>> THEN <<>>
  ELSE InsertByCreatedAt(s[Len(s)], SortByCreatedAt(SubSeq(s, 1, Len(s) - 1)))

\* what getMatchMessages returns or throws
getMatchMessages(matchId, userId) ==
  LET error == assertMatchParticipant(matchId, userId)
  IN [op |-> "getMatchMessages", matchId |-> matchId, userId |-> userId,
      error |-> error,
      messages |-> IF error # NoError THEN <<>>
                   ELSE SortByCreatedAt(ensureMessageStore(matchId))]

\* match.lastInteraction, null for a match no message has touched
LastInteractionOf(matchId) ==
  IF \E e \in lastInteraction : e.matchId = matchId
  THEN (CHOOSE e \in lastInteraction : e.matchId = matchId).at
  ELSE Null

\* otherUser = match.user1Id === userId ? match.user2 : match.user1
OtherUser_same(match, userId) ==
  IF match.user1Id = userId THEN match.user1Id ELSE match.user2Id

OtherUser(match, userId) ==
  IF match.user1Id = userId THEN match.user2Id ELSE match.user1Id

\* otherUser.profile?.age || null, otherUser.profile?.gender || null
ProfileAge(userId) ==
  IF FindProfile(userId) = {} THEN Null
  ELSE OrElse((CHOOSE row \in FindProfile(userId) : TRUE).age, Null)

ProfileGender(userId) ==
  IF FindProfile(userId) = {} THEN ""
  ELSE (CHOOSE row \in FindProfile(userId) : TRUE).gender

\* what getMatchDetails returns or throws
getMatchDetails(matchId, userId) ==
  LET error == assertMatchParticipant(matchId, userId)
  IN IF error # NoError
     THEN [op |-> "getMatchDetails", matchId |-> matchId, userId |-> userId,
           error |-> error, matchedWith |-> [id |-> 0, age |-> Null, gender |-> ""],
           lastInteraction |-> Null]
     ELSE LET match == CHOOSE m \in FindMatchById(matchId) : TRUE
              otherUser == OtherUser(match, userId)
          IN [op |-> "getMatchDetails", matchId |-> matchId, userId |-> userId,
              error |-> NoError,
              matchedWith |-> [id |-> otherUser, age |-> ProfileAge(otherUser),
                               gender |-> ProfileGender(otherUser)],
              lastInteraction |-> LastInteractionOf(matchId)]

\* isUser1 ? match.user2 : match.user1
MatchedWith_swapped(match, userId) ==
  IF match.user1Id = userId THEN match.user1Id ELSE match.user2Id

MatchedWith(match, userId) ==
  IF match.user1Id = userId THEN match.user2Id ELSE match.user1Id

\* where: { OR: [{ user1Id: userId }, { user2Id: userId }] }
MatchesOfUser(userId) ==
  {m \in matches : m.user1Id = userId \/ m.user2Id = userId}

\* orderBy: { lastInteraction: 'desc' }: nulls first, then the later
\* interaction first; rows that tie come in the order of their pair keys.
ListedBefore(m, n) ==
  LET a == LastInteractionOf(m.id)
      b == LastInteractionOf(n.id)
  IN IF a # b THEN (a = Null \/ (b # Null /\ a > b))
     ELSE \/ m.user1Id < n.user1Id
          \/ (m.user1Id = n.user1Id /\ m.user2Id < n.user2Id)
          \/ (m.user1Id = n.user1Id /\ m.user2Id = n.user2Id /\ m.id[3] <= n.id[3])

RECURSIVE OrderMatches(_)
OrderMatches(S) ==
  IF S = {} THEN <<>>
  ELSE LET m == CHOOSE x \in S : \A y \in S : ListedBefore(x, y)
       IN <<m>> \o OrderMatches(S \ {m})

\* what getUserMatches returns
getUserMatches(userId) ==
  LET found == OrderMatches(MatchesOfUser(userId))
  IN [op |-> "getUserMatches", userId |-> userId, error |-> NoError,
      matches |-> [i \in 1..Len(found) |->
                     [id |-> found[i].id,
                      matchedWithId |-> MatchedWith(found[i], userId),
                      lastInteraction |-> LastInteractionOf(found[i].id)]]]

\* Math.max(0, DAILY_SWIPE_LIMIT - totalSwipesToday)
SwipesRemaining_offByOne(totalSwipesToday) ==
  IF DAILY_SWIPE_LIMIT - totalSwipesToday - 1 > 0
  THEN DAILY_SWIPE_LIMIT - totalSwipesToday - 1
  ELSE 0

SwipesRemaining(totalSwipesToday) ==
  IF DAILY_SWIPE_LIMIT - totalSwipesToday > 0
  THEN DAILY_SWIPE_LIMIT - totalSwipesToday
  ELSE 0

\* getTomorrowUtc(): the UTC day after the current one
getTomorrowUtc == today + 1

\* what getSwipeStats returns
getSwipeStats(userId) ==
  [op |-> "getSwipeStats", userId |-> userId, error |-> NoError,
   totalSwipesToday |-> getSwipeCountToday(userId),
   swipesRemaining |-> SwipesRemaining(getSwipeCountToday(userId)),
   resetTime |-> getTomorrowUtc]

\* A query is answered: its store statements only read, and its response is
\* sent before the next request is served.
GetSwipeStats(userId) ==
  /\ reply = NoReply
  /\ reply' = getSwipeStats(userId)
  /\ UNCHANGED <<today, seeded, created, matches, calls>>
  /\ UNCHANGED <<profiles, messages, lastInteraction, now, posts>>

GetUserMatches(userId) ==
  /\ reply = NoReply
  /\ reply' = getUserMatches(userId)
  /\ UNCHANGED <<today, seeded, created, matches, calls>>
  /\ UNCHANGED <<profiles, messages, lastInteraction, now, posts>>

GetMatchDetails(matchId, userId) ==
  /\ reply = NoReply
  /\ reply' = getMatchDetails(matchId, userId)
  /\ UNCHANGED <<today, seeded, created, matches, calls>>
  /\ UNCHANGED <<profiles, messages, lastInteraction, now, posts>>

\* ensureMessageStore gives a match without an entry an empty list, which
\* reads the same as no entry.
GetMatchMessages(matchId, userId) ==
  /\ reply = NoReply
  /\ reply' = getMatchMessages(matchId, userId)
  /\ UNCHANGED <<today, seeded, created, matches, calls>>
  /\ UNCHANGED <<profiles, messages, lastInteraction, now, posts>>

\* An addMatchMessage request whose response has been delivered.
ReturnedPost == [IdlePost EXCEPT !.pc = "returned"]

\* Request k takes a step to the record c; the result of a request that has
\* returned or thrown stays in its record until the next step of any request.
UpdatePost(k, c) ==
  [j \in PostCalls |->
     IF j = k THEN c
     ELSE IF posts[j].pc = "done" THEN ReturnedPost
     ELSE posts[j]]

\* The request throws.
FinishPost(c, err) ==
  [c EXCEPT !.pc = "done", !.error = err, !.trimmedContent = <<>>]

\* Entry of addMatchMessage: the content is trimmed and checked, and the
\* match lookup of assertMatchParticipant is dispatched.
StartPost(k, matchId, senderId, content) ==
  /\ reply = NoReply
  /\ posts[k].pc = "idle"
  /\ \A j \in PostCalls : j < k => posts[j].pc # "idle"
  /\ LET c == [IdlePost EXCEPT !.matchId = matchId, !.senderId = senderId,
                               !.content = content]
         trimmedContent == Trim(content)
     IN posts' = UpdatePost(k,
          IF IsEmpty(trimmedContent) THEN FinishPost(c, ErrContentEmpty)
          ELSE IF TooLong(trimmedContent) THEN FinishPost(c, ErrContentTooLong)
          ELSE [c EXCEPT !.pc = "assert", !.trimmedContent = trimmedContent])
  /\ UNCHANGED <<today, seeded, created, matches, calls>>
  /\ UNCHANGED <<profiles, messages, lastInteraction, now, reply>>

\* the id randomUUID() gives the next message
NewMessageId_reused ==
  IF messages = <<>> THEN 1 ELSE messages[Len(messages)].id

NewMessageId == Len(messages) + 1

\* The match lookup returns: the participant check, createdAt = new Date(),
\* the push onto the message store, and the dispatch of the match update.
PushMessage(k) ==
  /\ reply = NoReply
  /\ posts[k].pc = "assert"
  /\ LET c == posts[k]
         error == assertMatchParticipant(c.matchId, c.senderId)
     IN IF error # NoError
        THEN /\ posts' = UpdatePost(k, FinishPost(c, error))
             /\ UNCHANGED messages
        ELSE /\ messages' = Append(messages,
                  [id |-> NewMessageId, matchId |-> c.matchId,
                   senderId |-> c.senderId, content |-> c.trimmedContent,
                   createdAt |-> now])
             /\ posts' = UpdatePost(k,
                  [c EXCEPT !.pc = "update", !.messageId = NewMessageId,
                            !.createdAt = now])
  /\ UNCHANGED <<today, seeded, created, matches, calls>>
  /\ UNCHANGED <<profiles, lastInteraction, now, reply>>

\* prisma.match.update({ data: { lastInteraction: createdAt } }); the request
\* returns the message.
UpdateLastInteraction(k) ==
  /\ reply = NoReply
  /\ posts[k].pc = "update"
  /\ LET c == posts[k]
     IN /\ lastInteraction' =
             {e \in lastInteraction : e.matchId # c.matchId}
               \cup {[matchId |-> c.matchId, at |-> c.createdAt]}
        /\ posts' = UpdatePost(k, [c EXCEPT !.pc = "done"])
  /\ UNCHANGED <<today, seeded, created, matches, calls>>
  /\ UNCHANGED <<profiles, messages, now, reply>>

\* The clock moves on before a request reads it with `new Date()`.
Tick ==
  /\ reply = NoReply
  /\ \E k \in PostCalls : posts[k].pc = "assert"
  /\ now < MaxNow
  /\ now' = now + 1
  /\ UNCHANGED <<today, seeded, created, matches, calls>>
  /\ UNCHANGED <<profiles, messages, lastInteraction, posts, reply>>

\* Users 1 and 2 have liked each other and are matched, and no message has
\* been posted to their match; user 3 is matched with nobody, or with user 1
\* and has sent one message.
MsgInit ==
  /\ today = 0
  /\ seeded = 0
  /\ \/ /\ created = {SwipeRow(1, 2, "like"), SwipeRow(2, 1, "like")}
        /\ matches = {MatchRow(1, 2)}
        /\ messages = <<>>
        /\ lastInteraction = {}
     \/ /\ created = {SwipeRow(1, 2, "like"), SwipeRow(2, 1, "like"),
                      SwipeRow(1, 3, "like"), SwipeRow(3, 1, "like")}
        /\ matches = {MatchRow(1, 2), MatchRow(1, 3)}
        /\ messages = <<[id |-> 1, matchId |-> MatchRow(1, 3).id, senderId |-> 3,
                         content |-> <<Run("a", 1)>>, createdAt |-> 0]>>
        /\ lastInteraction = {[matchId |-> MatchRow(1, 3).id, at |-> 0]}
  /\ calls = [p \in Calls |-> IdleCall]
  /\ profiles = <<>>
  /\ now = 0
  /\ posts = [k \in PostCalls |-> IdlePost]
  /\ reply = NoReply

PostStep(k) ==
  \/ \E m \in MatchIds, u \in Senders, content \in Contents : StartPost(k, m, u, content)
  \/ PushMessage(k)
  \/ UpdateLastInteraction(k)

MsgNext ==
  \/ \E k \in PostCalls : PostStep(k)
  \/ \E m \in MatchIds, u \in Senders : GetMatchMessages(m, u)
  \/ \E m \in MatchIds, u \in Senders : GetMatchDetails(m, u)
  \/ Tick
  \/ Deliver

\* the status the match routes answer an error with
MatchHttpStatus(error) ==
  IF error \in {ErrMatchNotFound} THEN 404
  ELSE IF error \in {ErrUnauthorized} THEN 403
  ELSE IF error \in {ErrContentEmpty, ErrContentTooLong} THEN 400
  ELSE 500

\* concurrent message requests on matches that exist
MsgSpec == MsgInit /\ [][MsgNext]_vars

\* The response of a recordSwipe request is delivered.
Return(p) ==
  /\ calls[p].pc = "done"
  /\ calls' = [calls EXCEPT ![p] = ReturnedCall]
  /\ UNCHANGED <<today, seeded, created, matches>>
  /\ UNCHANGED others

\* every recordSwipe request that has arrived has been answered
Quiet == \A p \in Calls : calls[p].pc \in {"idle", "returned"}

QueryStartCall(p, a, t, d) == reply = NoReply /\ SeqStartCall(p, a, t, d)

QueryStep(p) ==
  \/ \E i \in Inputs, d \in Directions : QueryStartCall(p, i[1], i[2], d)
  \/ CountToday(p)
  \/ FindExisting(p)
  \/ CreateSwipe(p)
  \/ FindReverse(p)
  \/ FindExistingMatch(p)
  \/ CreateMatch(p)

QueryGetSwipeStats(userId) == Quiet /\ GetSwipeStats(userId)

QueryGetUserMatches(userId) == Quiet /\ GetUserMatches(userId)

QueryAdvanceDay == reply = NoReply /\ AdvanceDay

QueryNext ==
  \/ \E p \in Calls : QueryStep(p)
  \/ \E p \in Calls : Return(p)
  \/ \E u \in Actors : QueryGetSwipeStats(u)
  \/ \E u \in Actors : QueryGetUserMatches(u)
  \/ QueryAdvanceDay
  \/ Deliver

\* non-overlapping requests: swipes, statistics and match lists, with the
\* clock running
QuerySpec == Init /\ [][QueryNext]_vars

\* ---------------------------------------------------------------- claims
Done(p) == calls[p].pc = "done"
Succeeded(p) == Done(p) /\ calls[p].error = NoError
Failed(p) == Done(p) /\ calls[p].error # NoError
InFlight(p) == calls[p].pc \notin {"idle", "done", "returned"}

\* call p returns or throws in this step
Finishes(p) == calls[p].pc # "done" /\ calls'[p].pc = "done"

\* the ids that can occur in a row created by a request
Active == 0..MaxTarget

\* C1: with non-overlapping calls, no acting user ever has more than 100 swipes
\* dated on the current UTC day, and a call whose count query finds the
\* actor at 100 or more swipes on the day that is still the current one
\* throws the daily-limit error and leaves both tables as they were.
C1_QuotaInvariant ==
  /\ [](\A u \in Actors : getSwipeCountToday(u) <= DAILY_SWIPE_LIMIT)
  /\ [][\A p \in Calls :
          (/\ calls[p].pc = "countToday"
           /\ calls'[p].pc # "countToday"
           /\ calls[p].countDay = today
           /\ getSwipeCountToday(calls[p].actorId) >= DAILY_SWIPE_LIMIT)
          => (/\ calls'[p].pc = "done"
              /\ calls'[p].error = ErrDailyLimit
              /\ calls'[p].swipeId = <<>>
              /\ swipes' = swipes
              /\ matches' = matches)]_vars

\* A call brought the actor to 100 swipes today, and the actor's next call
\* to another existing user was rejected with the daily-limit error.
C1_Witness ==
  \E p \in Calls :
    /\ Failed(p)
    /\ calls[p].error = ErrDailyLimit
    /\ calls[p].targetId \in Users
    /\ calls[p].targetId # calls[p].actorId
    /\ \E s \in created : /\ s.actorId = calls[p].actorId
                          /\ s.targetId # calls[p].targetId
                          /\ s.swipeDate = today
    /\ getSwipeCountToday(calls[p].actorId) = DAILY_SWIPE_LIMIT

\* C2: under any interleaving of concurrent calls, an actor's count of
\* swipes dated on the current UTC day never exceeds 100.
C2_ConcurrentQuota ==
  \A a \in Actors :
    Cardinality({s \in swipes : s.actorId = a /\ s.swipeDate = today})
      <= DAILY_SWIPE_LIMIT

\* C3: in every reachable state there is at most one Match row for each
\* unordered pair of users.
C3_OneMatchPerPair ==
  \A m1, m2 \in matches :
    {m1.user1Id, m1.user2Id} = {m2.user1Id, m2.user2Id} => m1 = m2

\* Two concurrent calls both found no Match and both issued the insert; one
\* created the row, the other (this one) was stopped by the unique index.
C3_Witness ==
  \E q \in Calls :
    /\ Failed(q) /\ calls[q].swipeId # <<>>
    /\ calls[q].error = ErrUniqueConstraint
    /\ ~calls[q].matchCreated
    /\ Cardinality(MatchesOfPair(calls[q].actorId, calls[q].targetId)) = 1

C5_PassNeverMatches ==
  /\ \A s \in created :
       s.direction = "pass" => MatchesOfPair(s.actorId, s.targetId) = {}
  /\ \A p \in Calls : calls[p].direction = "pass" => ~calls[p].matchCreated

\* One user had passed, the other then liked and succeeded, and the pair
\* has no Match.
C5_Witness ==
  \E p \in Calls :
    /\ Succeeded(p) /\ calls[p].direction = "like" /\ ~calls[p].matchCreated
    /\ \E s \in FindSwipe(calls[p].targetId, calls[p].actorId) :
         s.direction = "pass"
    /\ MatchesOfPair(calls[p].actorId, calls[p].targetId) = {}

\* C6 as stated: with non-overlapping calls, a call for an ordered pair that
\* already has a swipe always fails with the already-swiped error, and the
\* swipes table is left as it was.
C6_DuplicateAlwaysRejected ==
  [][\A p \in Calls :
       (Finishes(p) /\ FindSwipe(calls'[p].actorId, calls'[p].targetId) # {}
          /\ calls'[p].swipeId = <<>>)
       => (/\ calls'[p].error = ErrAlreadySwiped
           /\ swipes' = swipes)]_vars

\* C6 amended: such a call fails with the daily-limit error when its count
\* query finds the actor at 100 or more swipes, with the already-swiped
\* error otherwise; either way the pair keeps its single, unchanged swipe.
C6_DuplicateOrQuotaRejected ==
  [][\A p \in Calls :
       (Finishes(p) /\ FindSwipe(calls'[p].actorId, calls'[p].targetId) # {}
          /\ calls'[p].swipeId = <<>>)
       => (/\ calls'[p].error =
                IF calls[p].pc = "countToday" THEN ErrDailyLimit
                ELSE ErrAlreadySwiped
           /\ calls[p].pc = "countToday"
                => SwipeCountOn(calls[p].actorId, calls[p].countDay)
                     >= DAILY_SWIPE_LIMIT
           /\ calls[p].pc \in {"countToday", "findExisting"}
           /\ swipes' = swipes
           /\ Cardinality(FindSwipe(calls'[p].actorId, calls'[p].targetId)) = 1)]_vars

\* A swipe was recorded, and a second call for the same ordered pair with
\* the other direction was rejected as already swiped.
C6_Witness ==
  \E p \in Calls :
    /\ Failed(p)
    /\ calls[p].error = ErrAlreadySwiped
    /\ \E s \in FindSwipe(calls[p].actorId, calls[p].targetId) :
         s.direction # calls[p].direction
    /\ Cardinality(FindSwipe(calls[p].actorId, calls[p].targetId)) = 1

\* C7: a call with actorId = targetId throws the self-swipe error at once
\* and changes neither table, and no call ever stores a swipe row with
\* actorId = targetId.
C7_NoSelfAction ==
  /\ [](\A s \in created : s.actorId # s.targetId)
  /\ [][\A p \in Calls :
          (calls[p].pc = "idle" /\ calls'[p].pc # "idle"
             /\ calls'[p].actorId = calls'[p].targetId)
          => (/\ calls'[p].pc = "done"
              /\ calls'[p].error = ErrSelf
              /\ calls'[p].swipeId = <<>>
              /\ swipes' = swipes
              /\ matches' = matches)]_vars

\* A user already at the daily limit swiped on themself and got the
\* self-swipe error.
C7_Witness ==
  \E p \in Calls :
    /\ Failed(p) /\ calls[p].error = ErrSelf
    /\ calls[p].actorId = calls[p].targetId
    /\ getSwipeCountToday(calls[p].actorId) >= DAILY_SWIPE_LIMIT

\* C8: a call that has ended in an error has persisted no swipe (and so no
\* match), under any interleaving.
C8_AllOrNothing ==
  \A p \in Calls :
    Failed(p) => /\ calls[p].swipeId = <<>>
                 /\ ~calls[p].matchCreated

\* C9: when a call ends in an error after a concurrent call for the same
\* ordered pair has stored its swipe, and the failing call had passed its
\* quota check, the response is 409 (already swiped).
C9_RaceLoserGets409 ==
  [][\A p \in Calls :
       (/\ Finishes(p)
        /\ calls'[p].error # NoError
        /\ calls[p].pc \in {"findExisting", "createSwipe"}
        /\ FindSwipe(calls[p].actorId, calls[p].targetId) # {})
       => (/\ HttpStatus(calls'[p]) = 409
           /\ Cardinality(FindSwipe(calls[p].actorId, calls[p].targetId)) = 1)]_vars

\* C10: every Match row has user1Id < user2Id.
C10_MatchOrdered ==
  \A m \in matches : m.user1Id < m.user2Id

\* The user with the larger id completed the mutual like, and the Match has
\* the other user first.
C10_Witness ==
  \E p \in Calls :
    /\ Succeeded(p) /\ calls[p].matchCreated
    /\ calls[p].actorId > calls[p].targetId
    /\ \E m \in matches :
         m.user1Id = calls[p].targetId /\ m.user2Id = calls[p].actorId

\* ------------------------------------------------------ discovery claims
\* a discovery request has been answered with a result
Answered == reply.op = "getNearbyProfiles" /\ reply.error = NoError

\* the profile row of a user who has one
RowOf(userId) == CHOOSE row \in ProfileRows : row.userId = userId

\* the unrounded distance between two users' profiles, as the radius filter
\* computes it
DistanceBetween(a, b) ==
  haversineDistance(RowOf(a).locationLat, RowOf(a).locationLng,
                    RowOf(b).locationLat, RowOf(b).locationLng)

HasActedOn(actorId, targetId) ==
  \E s \in swipes : s.actorId = actorId /\ s.targetId = targetId

\* C11: a discovery result for requester r never lists r's own profile nor
\* a user r has a stored swipe on, and its total counts no more than the
\* profiles of other users r has not acted on.
C11_ExcludesSelfAndActedOn ==
  Answered =>
    /\ \A i \in DOMAIN reply.profiles :
         /\ reply.profiles[i].userId # reply.userId
         /\ ~HasActedOn(reply.userId, reply.profiles[i].userId)
    /\ reply.total <= Cardinality({row \in ProfileRows :
                         /\ row.userId # reply.userId
                         /\ ~HasActedOn(reply.userId, row.userId)})

\* the radius in force: the query's, else the stored preference, else 25
EffectiveRadius(query, userId) ==
  IF query.radius # Null THEN query.radius
  ELSE IF RowOf(userId).radiusPref # Null THEN RowOf(userId).radiusPref
  ELSE 25

\* the conjunction of the conditions of C12 for the row of user c
MeetsFilters(c, userId, query) ==
  /\ DistanceBetween(userId, c) <= EffectiveRadius(query, userId) * 1000
  /\ query.genderPreference = "" \/ RowOf(c).gender = query.genderPreference
  /\ query.minAge = Null \/ (RowOf(c).age # Null /\ RowOf(c).age >= query.minAge)
  /\ query.maxAge = Null \/ (RowOf(c).age # Null /\ RowOf(c).age <= query.maxAge)
  /\ ~query.sameCity \/ DistanceBetween(userId, c) <= 10 * 1000
  /\ RowOf(c).status = "active"

\* C12: every profile listed in a discovery result lies within the radius
\* in force, has the preferred gender if one is set, has an age within the
\* age bounds that are set, lies within 10 miles if sameCity is set, and is
\* active.
C12_FiltersConjunctive ==
  Answered =>
    \A i \in DOMAIN reply.profiles :
      MeetsFilters(reply.profiles[i].userId, reply.userId, reply.query)

\* A query with radius, gender, minimum age and sameCity set was answered
\* with a profile, while another active, located user who has not been
\* swiped on was left out.
C12_Witness ==
  /\ Answered
  /\ reply.query.radius # Null
  /\ reply.query.genderPreference # ""
  /\ reply.query.minAge # Null
  /\ reply.query.sameCity
  /\ reply.profiles # <<>>
  /\ \E row \in ProfileRows :
       /\ row.userId # reply.userId
       /\ row.status = "active"
       /\ ~HasActedOn(reply.userId, row.userId)
       /\ \A i \in DOMAIN reply.profiles : reply.profiles[i].userId # row.userId

\* the pages from offset on, each requested with the query's limit, up to
\* the first page that reports hasMore = false
RECURSIVE PagesFrom(_, _, _)
PagesFrom(userId, query, offset) ==
  LET page == getNearbyProfiles(userId, [query EXCEPT !.offset = offset])
  IN IF page.hasMore
     THEN page.profiles \o PagesFrom(userId, query, offset + Limit(query))
     ELSE page.profiles

C14_RankedByDistance ==
  Answered =>
    \A i, j \in DOMAIN reply.profiles :
      i < j =>
        LET p == reply.profiles[i]
            q == reply.profiles[j]
        IN /\ DistanceBetween(reply.userId, p.userId)
                <= DistanceBetween(reply.userId, q.userId)
           /\ DistanceBetween(reply.userId, p.userId)
                = DistanceBetween(reply.userId, q.userId)
                => Cardinality(p.sharedHobbies) >= Cardinality(q.sharedHobbies)

\* C15: a discovery request is rejected for a missing location exactly when
\* the requester has no profile or a latitude or longitude that is null.
C15_LocationRequiredIff ==
  reply.op = "getNearbyProfiles" =>
    (reply.error = ErrLocationRequired
       <=> \/ FindProfile(reply.userId) = {}
           \/ RowOf(reply.userId).locationLat = Null
           \/ RowOf(reply.userId).locationLng = Null)

\* -------------------------------------------- match and message claims
MatchExists(matchId) == \E m \in matches : m.id = matchId

IsParticipant(matchId, userId) ==
  \E m \in matches : m.id = matchId /\ userId \in {m.user1Id, m.user2Id}

\* request k returns or throws in this step
PostFinishes(k) == posts[k].pc # "done" /\ posts'[k].pc = "done"

\* C16: for an existing match, listMessages by a user who is neither of its
\* participants fails as unauthorized, while both participants succeed and
\* get the same list; and a postMessage by a non-participant, whatever its
\* content, fails as unauthorized and leaves the message log and every
\* lastInteraction as they were.
C16_MessageAuthorization ==
  /\ [](\A m \in matches, u \in Senders :
          IF u \in {m.user1Id, m.user2Id}
          THEN /\ getMatchMessages(m.id, u).error = NoError
               /\ getMatchMessages(m.id, u).messages
                    = getMatchMessages(m.id, m.user1Id).messages
          ELSE getMatchMessages(m.id, u).error = ErrUnauthorized)
  /\ [][\A k \in PostCalls :
          (/\ PostFinishes(k)
           /\ MatchExists(posts'[k].matchId)
           /\ ~IsParticipant(posts'[k].matchId, posts'[k].senderId))
          => (/\ posts'[k].error = ErrUnauthorized
              /\ messages' = messages
              /\ lastInteraction' = lastInteraction)]_vars

\* the content without the whitespace run at its start and at its end
Stripped(content) ==
  LET from == IF content # <<>> /\ content[1].ch = " " THEN 2 ELSE 1
      to == IF content # <<>> /\ content[Len(content)].ch = " "
            THEN Len(content) - 1 ELSE Len(content)
  IN SubSeq(content, from, to)

\* C17: a postMessage by a participant of the match succeeds exactly when
\* its content, stripped of leading and trailing whitespace, has 1 to 1000
\* characters; otherwise it fails with one of the two content errors and
\* stores nothing; on success the stored message carries the stripped
\* content.
C17_ContentBounds ==
  [][\A k \in PostCalls :
       (/\ PostFinishes(k)
        /\ IsParticipant(posts'[k].matchId, posts'[k].senderId))
       => LET c == posts'[k]
              length == Length(Stripped(c.content))
          IN /\ c.error = NoError <=> (length >= 1 /\ length <= 1000)
             /\ c.error # NoError =>
                  /\ c.error = IF length = 0 THEN ErrContentEmpty
                               ELSE ErrContentTooLong
                  /\ c.messageId = 0
                  /\ messages' = messages
             /\ c.error = NoError =>
                  \E i \in DOMAIN messages' :
                    /\ messages'[i].id = c.messageId
                    /\ messages'[i].matchId = c.matchId
                    /\ messages'[i].senderId = c.senderId
                    /\ messages'[i].content = Stripped(c.content)]_vars

\* A participant posted a padded content of more than 1000 characters whose
\* stripped form has exactly 1000, and it was stored stripped.
C17_Witness ==
  \E k \in PostCalls :
    /\ posts[k].pc = "done"
    /\ posts[k].error = NoError
    /\ Length(posts[k].content) > 1000
    /\ \E i \in DOMAIN messages :
         /\ messages[i].id = posts[k].messageId
         /\ Length(messages[i].content) = 1000
         /\ messages[i].content # posts[k].content

\* C18: getMatchDetails and listMessages fail as not found (404) when the
\* match id resolves to no match, as unauthorized (403) when the match
\* exists and the requester is neither participant, and succeed otherwise;
\* the details then describe the participant who is not the requester.
C18_MatchAccessChecks ==
  reply.op \in {"getMatchDetails", "getMatchMessages"} =>
    LET found == {m \in matches : m.id = reply.matchId}
    IN /\ found = {} => /\ reply.error = ErrMatchNotFound
                        /\ MatchHttpStatus(reply.error) = 404
       /\ \A m \in found :
            IF reply.userId \notin {m.user1Id, m.user2Id}
            THEN /\ reply.error = ErrUnauthorized
                 /\ MatchHttpStatus(reply.error) = 403
            ELSE /\ reply.error = NoError
                 /\ reply.op = "getMatchDetails" =>
                      /\ reply.matchedWith.id # reply.userId
                      /\ {reply.userId, reply.matchedWith.id}
                           = {m.user1Id, m.user2Id}

\* The participant stored as user2Id asked for the details of a match that
\* has messages, and was shown user1Id.
C18_Witness ==
  /\ reply.op = "getMatchDetails"
  /\ reply.error = NoError
  /\ messages # <<>>
  /\ \E m \in matches :
       /\ m.id = reply.matchId
       /\ reply.userId = m.user2Id
       /\ reply.matchedWith.id = m.user1Id

\* C19: with non-overlapping requests, getSwipeStats reports the number of
\* the user's swipes dated on the current UTC day, the rest of the 100 (at
\* least 0) and the next UTC day as reset time; answering it changes neither
\* table nor the clock; and each swipe a request stores with today's date
\* raises the count reported for its actor by one, while the day lasts.
C19_StatsReflectActions ==
  /\ [](reply.op = "getSwipeStats" =>
          LET count == Cardinality({s \in swipes : /\ s.actorId = reply.userId
                                                   /\ s.swipeDate = today})
          IN /\ reply.totalSwipesToday = count
             /\ reply.swipesRemaining = (IF count < 100 THEN 100 - count ELSE 0)
             /\ reply.resetTime = today + 1)
  /\ [][(reply'.op = "getSwipeStats" /\ reply # reply')
          => UNCHANGED <<today, seeded, created, matches, calls, profiles,
                         messages, lastInteraction>>]_vars
  /\ [][\A s \in created' \ created :
          (s.swipeDate = today /\ today' = today) =>
            /\ getSwipeStats(s.actorId)'.totalSwipesToday
                 = getSwipeStats(s.actorId).totalSwipesToday + 1
            /\ getSwipeStats(s.actorId)'.swipesRemaining
                 = (IF getSwipeStats(s.actorId).swipesRemaining > 0
                    THEN getSwipeStats(s.actorId).swipesRemaining - 1 ELSE 0)]_vars

\* A user with no earlier swipes made two successful swipes today and was
\* then told: 2 today, 98 remaining.
C19_Witness ==
  /\ reply.op = "getSwipeStats"
  /\ seeded = 0
  /\ Cardinality({s \in created : s.actorId = reply.userId /\ s.swipeDate = today}) = 2
  /\ reply.totalSwipesToday = 2
  /\ reply.swipesRemaining = 98

\* C20: getUserMatches(u) lists, once each, exactly the matches that have u
\* as user1Id or user2Id, each with the id of the participant who is not u;
\* when the only match is one between a and b, the lists of a and of b each
\* hold that one match, referring to the other user.
C20_ListMatchesSymmetric ==
  /\ reply.op = "getUserMatches" =>
       LET u == reply.userId
           listed == {reply.matches[i] : i \in DOMAIN reply.matches}
           own == {m \in matches : m.user1Id = u \/ m.user2Id = u}
       IN /\ {e.id : e \in listed} = {m.id : m \in own}
          /\ Len(reply.matches) = Cardinality(own)
          /\ \A e \in listed :
               /\ e.matchedWithId # u
               /\ \E m \in own : /\ m.id = e.id
                                 /\ {u, e.matchedWithId} = {m.user1Id, m.user2Id}
  /\ \A m \in matches :
       matches = {m} =>
         LET first == getUserMatches(m.user1Id).matches
             second == getUserMatches(m.user2Id).matches
         IN /\ Len(first) = 1 /\ Len(second) = 1
            /\ first[1].id = m.id /\ second[1].id = m.id
            /\ first[1].matchedWithId = m.user2Id
            /\ second[1].matchedWithId = m.user1Id

\* After a mutual like the user stored as user2Id listed their matches and
\* got the one match, referring to user1Id.
C20_Witness ==
  /\ reply.op = "getUserMatches"
  /\ Len(reply.matches) = 1
  /\ \E m \in matches :
       /\ matches = {m}
       /\ reply.userId = m.user2Id
       /\ reply.matches[1].id = m.id
       /\ reply.matches[1].matchedWithId = m.user1Id
       /\ \E s \in FindSwipe(m.user1Id, m.user2Id) : s.direction = "like"
       /\ \E s \in FindSwipe(m.user2Id, m.user1Id) : s.direction = "like"

\* ------------------------------------------------- third group of claims
\* the day whose swipes the count query of request p covers
QuotaDay(p) == IF calls[p].pc = "countToday" THEN calls[p].countDay ELSE today

\* C21: with non-overlapping requests, a recordSwipe request that fails
\* fails with the first of: self swipe, target not found, daily limit
\* reached, already swiped, whose condition holds; so a request of an actor
\* at 100 swipes on a target that does not exist fails as not found, and one
\* on a target the actor has swiped on already fails with the daily limit.
C21_RejectionOrder ==
  [][\A p \in Calls :
       (Finishes(p) /\ calls'[p].error # NoError)
       => LET a == calls'[p].actorId
              t == calls'[p].targetId
          IN calls'[p].error =
               IF a = t THEN ErrSelf
               ELSE IF t \notin Users THEN ErrTargetNotFound
               ELSE IF SwipeCountOn(a, QuotaDay(p)) >= 100 THEN ErrDailyLimit
               ELSE IF FindSwipe(a, t) # {} THEN ErrAlreadySwiped
               ELSE "unexpected"]_vars

\* An actor with 100 swipes today swiped again on a user they had swiped on
\* and was told the daily limit was reached.
C21_Witness ==
  \E p \in Calls :
    /\ Failed(p)
    /\ calls[p].error = ErrDailyLimit
    /\ FindSwipe(calls[p].actorId, calls[p].targetId) # {}
    /\ getSwipeCountToday(calls[p].actorId) >= 100

\* a like of actorId for targetId is stored
Liked(actorId, targetId) ==
  \E s \in FindSwipe(actorId, targetId) : s.direction = "like"

\* C22: under any interleaving of recordSwipe requests, every match joins
\* two users who have each a stored like for the other, so a like that is
\* not answered, or is answered by a pass, has no match; and no step removes
\* or alters a match.
C22_MatchBackedByLikes ==
  /\ [](\A m \in matches : /\ Liked(m.user1Id, m.user2Id)
                           /\ Liked(m.user2Id, m.user1Id))
  /\ [](\A s \in created :
          (s.direction = "like" /\ ~Liked(s.targetId, s.actorId))
          => MatchesOfPair(s.actorId, s.targetId) = {})
  /\ [][matches \subseteq matches']_vars

\* Two requests have stored the likes of two users for each other and have
\* both finished; the one match of the table joins these two users.
C22_Witness ==
  /\ \A p \in Calls : calls[p].pc \in {"done", "returned"}
  /\ \E m \in matches :
       /\ matches = {m}
       /\ \E s \in created, r \in created :
            /\ created = {s, r}
            /\ s.direction = "like" /\ r.direction = "like"
            /\ s.actorId = m.user1Id /\ s.targetId = m.user2Id
            /\ r.actorId = m.user2Id /\ r.targetId = m.user1Id

\* no request about the two users is under way
Settled(a, b) ==
  \A p \in Calls : InFlight(p) => {calls[p].actorId, calls[p].targetId} # {a, b}

\* C23: under any interleaving of recordSwipe requests, once the likes of
\* two users for each other are both stored and every request about the two
\* has returned or thrown, a match joins them (the rows stored before the
\* requests are passes, so the stored likes are among the created rows).
C23_MutualLikeMatched ==
  \A s \in created, t \in created :
    (/\ s.direction = "like"
     /\ t.direction = "like"
     /\ t.actorId = s.targetId
     /\ t.targetId = s.actorId
     /\ Settled(s.actorId, s.targetId))
    => MatchesOfPair(s.actorId, s.targetId) # {}

\* Both likes were stored before either request looked for the other's; both
\* requests went on to insert the match, the second insert failed on the
\* unique index, and the pair is matched.
C23_Witness ==
  \E p \in Calls :
    /\ Failed(p)
    /\ calls[p].error = ErrUniqueConstraint
    /\ calls[p].swipeId # <<>>
    /\ Liked(calls[p].actorId, calls[p].targetId)
    /\ Liked(calls[p].targetId, calls[p].actorId)
    /\ Settled(calls[p].actorId, calls[p].targetId)
    /\ Cardinality(MatchesOfPair(calls[p].actorId, calls[p].targetId)) = 1

\* C24: a discovery result leaves out no eligible profile: every row of
\* another user that is active, has a latitude and a longitude stored,
\* belongs to a user the requester has no swipe on, and meets the radius in
\* force and every filter that is set, is in the filtered list that total
\* counts and is on one of the pages.
C24_DiscoveryComplete ==
  Answered =>
    \A row \in ProfileRows :
      (/\ row.userId # reply.userId
       /\ row.locationLat # Null
       /\ row.locationLng # Null
       /\ ~HasActedOn(reply.userId, row.userId)
       /\ MeetsFilters(row.userId, reply.userId, reply.query))
      => LET whole == TransformedProfiles(reply.userId, reply.query)
             joined == PagesFrom(reply.userId, reply.query, 0)
         IN /\ \E i \in DOMAIN whole : whole[i].userId = row.userId
            /\ reply.total = Len(whole)
            /\ \E i \in DOMAIN joined : joined[i].userId = row.userId

\* request k pushes its message in this step
Pushes(k) == posts[k].pc = "assert" /\ posts'[k].pc = "update"

\* request k updates the match and returns its message in this step
Returns(k) == posts[k].pc = "update" /\ posts'[k].pc = "done"

MessageIds == {messages[i].id : i \in DOMAIN messages}

\* C25: under any interleaving of addMatchMessage requests, a request that
\* succeeds appends one message to the log of its match, with a fresh id,
\* its sender and its content trimmed, and then sets the lastInteraction of
\* that match to the createdAt of the message; neither step touches another
\* match, another log or a message stored before; a request that throws
\* changes no log and no lastInteraction; and nothing else changes a log.
C25_PostEffectsAndFrame ==
  /\ [][\A k \in PostCalls :
          /\ Pushes(k) =>
               /\ Len(messages') = Len(messages) + 1
               /\ SubSeq(messages', 1, Len(messages)) = messages
               /\ LET message == messages'[Len(messages')]
                  IN /\ message.id \notin MessageIds
                     /\ message.id = posts'[k].messageId
                     /\ message.matchId = posts[k].matchId
                     /\ message.senderId = posts[k].senderId
                     /\ message.content = Stripped(posts[k].content)
                     /\ message.createdAt = posts'[k].createdAt
               /\ lastInteraction' = lastInteraction
               /\ \A m \in matches :
                    m.id # posts[k].matchId
                    => ensureMessageStore(m.id)' = ensureMessageStore(m.id)
          /\ Returns(k) =>
               /\ posts'[k].error = NoError
               /\ messages' = messages
               /\ LastInteractionOf(posts[k].matchId)' = posts[k].createdAt
               /\ \A m \in matches :
                    m.id # posts[k].matchId
                    => LastInteractionOf(m.id)' = LastInteractionOf(m.id)
               /\ \E i \in DOMAIN messages :
                    /\ messages[i].id = posts[k].messageId
                    /\ messages[i].createdAt = posts[k].createdAt
                    /\ \A j \in DOMAIN messages :
                         messages[j].id = posts[k].messageId => j = i
          /\ (PostFinishes(k) /\ posts'[k].error # NoError) =>
               /\ messages' = messages
               /\ lastInteraction' = lastInteraction]_vars
  /\ [][messages' # messages => \E k \in PostCalls : Pushes(k)]_vars
  /\ [][lastInteraction' # lastInteraction => \E k \in PostCalls : Returns(k)]_vars

\* A second message was posted to a match and its request returned: the log
\* holds the earlier message before it, the match carries the createdAt of
\* the second message, and another match has kept its one message and its
\* earlier lastInteraction.
C25_Witness ==
  \E k \in PostCalls :
    /\ posts[k].pc = "done"
    /\ posts[k].error = NoError
    /\ Len(ensureMessageStore(posts[k].matchId)) = 2
    /\ ensureMessageStore(posts[k].matchId)[2].id = posts[k].messageId
    /\ LastInteractionOf(posts[k].matchId) = posts[k].createdAt
    /\ posts[k].createdAt > ensureMessageStore(posts[k].matchId)[1].createdAt
    /\ \E m \in matches :
         /\ m.id # posts[k].matchId
         /\ Len(ensureMessageStore(m.id)) = 1
         /\ LastInteractionOf(m.id) < posts[k].createdAt

\* a request that may still write to the match
PostInFlight(matchId) ==
  \E k \in PostCalls : posts[k].pc \in {"assert", "update"} /\ posts[k].matchId = matchId

\* the createdAt of the message pushed last onto the log of the match
LatestCreatedAt(matchId) ==
  LET log == ensureMessageStore(matchId) IN log[Len(log)].createdAt

\* C26: under any interleaving of addMatchMessage requests, the
\* lastInteraction of a match never moves back, and when no request on the
\* match is under way it is the createdAt of the newest message of the log.
C26_LastInteractionTracks ==
  /\ [][\A e \in lastInteraction : LastInteractionOf(e.matchId)' >= e.at]_vars
  /\ [](\A m \in matches :
          (~PostInFlight(m.id) /\ ensureMessageStore(m.id) # <<>>)
          => LastInteractionOf(m.id) = LatestCreatedAt(m.id))

\* C27: a discovery request repeated with the same requester and query on
\* the same rows is answered with the same profiles in the same order, the
\* same total and the same hasMore, in whatever order the scan of the
\* profiles table returns the rows.
C27_DeterministicRanking ==
  Answered => getNearbyProfiles(reply.userId, reply.query) = reply

\* the user's swipes dated on the day
DatedOn(userId, day) ==
  {s \in swipes : s.actorId = userId /\ s.swipeDate = day}

\* C28: with non-overlapping requests and the clock running, the count of a
\* user's swipes today is the number of the user's swipes dated on the
\* current UTC day; a request whose count query covers the current day is
\* rejected with the daily-limit error exactly when 100 or more of the
\* actor's swipes are dated on it, so swipes of earlier days never count
\* and an actor who was at the limit yesterday is let through today; the
\* passing of midnight removes no swipe, and a request on a target the
\* actor has a swipe on, of whatever day, is rejected as already swiped.
C28_QuotaResetsAtMidnight ==
  /\ [](\A u \in Actors :
          getSwipeCountToday(u) = Cardinality(DatedOn(u, today)))
  /\ [][\A p \in Calls :
          (/\ calls[p].pc = "countToday"
           /\ calls'[p].pc # "countToday"
           /\ calls[p].countDay = today)
          => (calls'[p].error = ErrDailyLimit
                <=> Cardinality(DatedOn(calls[p].actorId, today)) >= 100)]_vars
  /\ [][\A p \in Calls :
          (calls[p].pc = "findExisting" /\ calls'[p].pc # "findExisting")
          => (calls'[p].error = ErrAlreadySwiped
                <=> \E s \in swipes : /\ s.actorId = calls[p].actorId
                                      /\ s.targetId = calls[p].targetId)]_vars
  /\ [][today' # today => (today' = today + 1 /\ swipes' = swipes)]_vars
  /\ [][created \subseteq created' /\ seeded' = seeded]_vars

\* An actor with 100 swipes dated yesterday has recorded a swipe today.
C28_Witness ==
  \E p \in Calls :
    /\ Succeeded(p)
    /\ today > 0
    /\ Cardinality(DatedOn(calls[p].actorId, today - 1)) >= 100
    /\ \E s \in created : /\ s.id = calls[p].swipeId
                          /\ s.swipeDate = today
    /\ getSwipeCountToday(calls[p].actorId) = 1

\* what the text of a supplied parameter denotes lies within the documented
\* bounds
WithinBounds(raw, lo, hi) ==
  raw.typeof = "undefined" \/ (raw.value # NotANumber /\ raw.value >= lo /\ raw.value <= hi)

InBounds(raw) ==
  /\ WithinBounds(raw.limit, 1, 50)
  /\ WithinBounds(raw.offset, 0, 1000000)
  /\ WithinBounds(raw.radius, 1, 500)
  /\ raw.genderPreference.typeof = "undefined" \/ raw.genderPreference.value \in Genders
  /\ WithinBounds(raw.minAge, 18, 120)
  /\ WithinBounds(raw.maxAge, 18, 120)

\* the filters the request asks for
Requested(raw) ==
  Query(Parsed(raw.limit, 20), Parsed(raw.offset, 0), Parsed(raw.radius, Null),
        Parsed(raw.genderPreference, ""), Parsed(raw.minAge, Null),
        Parsed(raw.maxAge, Null), Parsed(raw.sameCity, FALSE))

\* C29: a request to GET /api/discovery/profiles by an authenticated user
\* who has a location, with every supplied parameter within the documented
\* bounds, is answered 200 with profiles that all meet the filters asked
\* for, and is never answered 400.
C29_InBoundsAccepted ==
  (/\ reply.op = "GET /api/discovery/profiles"
   /\ ~LocationMissing(FindProfile(reply.userId))
   /\ InBounds(reply.rawQuery))
  => /\ reply.status = 200
     /\ \A i \in DOMAIN reply.profiles :
          MeetsFilters(reply.profiles[i].userId, reply.userId,
                       Requested(reply.rawQuery))

\* C30: an updateProfile request that fails because a hobby id is invalid
\* leaves the stored profile of the user, its fields and its hobbies, as it
\* was before the request.
C30_RejectedUpdateChangesNothing ==
  [][\A u \in DiscUsers :
       (/\ reply.op = "none"
        /\ reply'.op = "updateProfile"
        /\ reply'.userId = u
        /\ reply'.error = ErrInvalidHobbies)
       => FindProfile(u)' = FindProfile(u)]_vars
====
